---- MODULE Spec2Model ----
(***************************************************************************)
(* Subscriptions Hub API (src/main.py): the create / list / summary        *)
(* handlers over the "subscription" collection.                            *)
(*                                                                         *)
(* Python floats are IEEE-754 binary64.  A float is modelled by its exact  *)
(* value m * 2^e with m a 53-bit significand, and every arithmetic         *)
(* operation is rounded to nearest, ties to even, as the hardware does.    *)
(* Significands do not fit TLC's 32-bit integers, so naturals of           *)
(* arbitrary size are kept as little-endian sequences of 15-bit limbs.     *)
(* Exponent overflow and subnormals are out of the range of the inputs     *)
(* used.                                                                   *)
(***************************************************************************)
EXTENDS Integers, Sequences, FiniteSets, TLC

(***************************************************************************)
(* Naturals of arbitrary size: <<l1, ..., ln>> is l1 + l2*B + ... with     *)
(* 0 <= li < B and ln # 0; zero is << >>.                                  *)
(***************************************************************************)
LimbBase == 2 ^ 15

\* the number of bits of n, 0 <= n <= 2^15
IntBitLen(n) ==
    IF n < 2^8
    THEN IF n < 2^4
         THEN IF n < 2^2 THEN (IF n < 2 THEN n ELSE 2)
              ELSE (IF n < 2^3 THEN 3 ELSE 4)
         ELSE IF n < 2^6 THEN (IF n < 2^5 THEN 5 ELSE 6)
              ELSE (IF n < 2^7 THEN 7 ELSE 8)
    ELSE IF n < 2^12
         THEN IF n < 2^10 THEN (IF n < 2^9 THEN 9 ELSE 10)
              ELSE (IF n < 2^11 THEN 11 ELSE 12)
         ELSE IF n < 2^14 THEN (IF n < 2^13 THEN 13 ELSE 14)
              ELSE (IF n < 2^15 THEN 15 ELSE 16)

LimbBits == IntBitLen(LimbBase) - 1

RECURSIVE BNorm(_)
BNorm(a) ==
    IF a = << >> THEN << >>
    ELSE IF a[Len(a)] = 0 THEN BNorm(SubSeq(a, 1, Len(a) - 1))
    ELSE a

RECURSIVE BFromInt(_)
BFromInt(n) ==
    IF n = 0 THEN << >>
    ELSE <<n % LimbBase>> \o BFromInt(n \div LimbBase)

Limb(a, i) == IF i <= Len(a) THEN a[i] ELSE 0

RECURSIVE BAddFrom(_, _, _, _)
BAddFrom(a, b, i, carry) ==
    IF i > Len(a) /\ i > Len(b)
    THEN (IF carry = 0 THEN << >> ELSE <<carry>>)
    ELSE LET s == Limb(a, i) + Limb(b, i) + carry
         IN  <<s % LimbBase>> \o BAddFrom(a, b, i + 1, s \div LimbBase)

BAdd(a, b) == BAddFrom(a, b, 1, 0)

\* a - b for a >= b
RECURSIVE BSubFrom(_, _, _, _)
BSubFrom(a, b, i, borrow) ==
    IF i > Len(a) THEN << >>
    ELSE LET s == Limb(a, i) - Limb(b, i) - borrow
         IN  IF s < 0
             THEN <<s + LimbBase>> \o BSubFrom(a, b, i + 1, 1)
             ELSE <<s>> \o BSubFrom(a, b, i + 1, 0)

BSub(a, b) == BNorm(BSubFrom(a, b, 1, 0))

\* a <= b, comparing from the most significant limb down
RECURSIVE BLeqFrom(_, _, _)
BLeqFrom(a, b, i) ==
    IF i = 0 THEN TRUE
    ELSE IF a[i] < b[i] THEN TRUE
    ELSE IF a[i] > b[i] THEN FALSE
    ELSE BLeqFrom(a, b, i - 1)

BLeq(a, b) ==
    IF Len(a) < Len(b) THEN TRUE
    ELSE IF Len(a) > Len(b) THEN FALSE
    ELSE BLeqFrom(a, b, Len(a))

\* a * k for 0 <= k < B
RECURSIVE BMulFrom(_, _, _, _)
BMulFrom(a, k, i, carry) ==
    IF i > Len(a)
    THEN (IF carry = 0 THEN << >> ELSE <<carry>>)
    ELSE LET s == a[i] * k + carry
         IN  <<s % LimbBase>> \o BMulFrom(a, k, i + 1, s \div LimbBase)

BMulSmall(a, k) == BNorm(BMulFrom(a, k, 1, 0))

\* quotient and remainder of a by d, 0 < d < B: long division from the top limb
RECURSIVE BDivFrom(_, _, _, _)
BDivFrom(a, d, i, r) ==
    IF i = 0 THEN [q |-> << >>, r |-> r]
    ELSE LET cur  == r * LimbBase + a[i]
             rest == BDivFrom(a, d, i - 1, cur % d)
         IN  [q |-> rest.q \o <<cur \div d>>, r |-> rest.r]

BDivSmall(a, d) ==
    LET res == BDivFrom(a, d, Len(a), 0)
    IN  [q |-> BNorm(res.q), r |-> res.r]

Zeros(n) == [i \in 1..n |-> 0]

\* a * 2^s
BShl(a, s) ==
    IF a = << >> THEN << >>
    ELSE Zeros(s \div LimbBits) \o BMulSmall(a, 2 ^ (s % LimbBits))

\* floor(a / 2^s), and whether any bit was shifted out
BShr(a, s) ==
    LET drop  == s \div LimbBits
        lost  == \E i \in 1..drop : i <= Len(a) /\ a[i] # 0
        kept  == IF drop >= Len(a) THEN << >> ELSE SubSeq(a, drop + 1, Len(a))
        res   == BDivSmall(kept, 2 ^ (s % LimbBits))
    IN  [q |-> res.q, sticky |-> lost \/ res.r # 0]

BBitLen(a) ==
    IF a = << >> THEN 0
    ELSE (Len(a) - 1) * LimbBits + IntBitLen(a[Len(a)])

BOdd(a) == a # << >> /\ a[1] % 2 = 1

(***************************************************************************)
(* Python float: [neg, m, e] is (-1)^neg * m * 2^e, m of exactly MantBits  *)
(* bits, or zero (kept as +0.0: the code never tells -0.0 from 0.0).       *)
(***************************************************************************)
MantBits == 53

FZero == [neg |-> FALSE, m |-> << >>, e |-> 0]

\* The float of sign neg nearest in magnitude to n * 2^e (plus a non-zero
\* fraction of 2^e below it when sticky), ties to even.
FRound(neg, n, e, sticky) ==
    LET len == BBitLen(n)
    IN  IF len = 0 THEN FZero
        ELSE IF len <= MantBits
        THEN [neg |-> neg, m |-> BShl(n, MantBits - len), e |-> e - (MantBits - len)]
        ELSE LET s     == len - MantBits
                 sh    == BShr(n, s - 1)
                 guard == BOdd(sh.q)
                 q     == BShr(sh.q, 1).q
                 st    == sticky \/ sh.sticky
                 up    == guard /\ (st \/ BOdd(q))
                 r     == IF up THEN BAdd(q, <<1>>) ELSE q
             IN  IF BBitLen(r) > MantBits
                 THEN [neg |-> neg, m |-> BShr(r, 1).q, e |-> e + s + 1]
                 ELSE [neg |-> neg, m |-> r, e |-> e + s]

\* x + y
FAdd(x, y) ==
    IF x.m = << >> THEN y
    ELSE IF y.m = << >> THEN x
    ELSE LET e  == IF x.e < y.e THEN x.e ELSE y.e
             xm == BShl(x.m, x.e - e)
             ym == BShl(y.m, y.e - e)
         IN  IF x.neg = y.neg THEN FRound(x.neg, BAdd(xm, ym), e, FALSE)
             ELSE IF BLeq(ym, xm) THEN FRound(x.neg, BSub(xm, ym), e, FALSE)
             ELSE FRound(y.neg, BSub(ym, xm), e, FALSE)

\* x * k for a small integer k > 0
FMulSmall(x, k) == FRound(x.neg, BMulSmall(x.m, k), x.e, FALSE)

GuardShift == 5 * LimbBits

\* the float of sign neg nearest in magnitude to (n * 2^e) / d, d a small integer
FQuot(neg, n, e, d) ==
    LET res == BDivSmall(BShl(n, GuardShift), d)
    IN  FRound(neg, res.q, e - GuardShift, res.r # 0)

\* x / d for a small integer d > 0
FDivSmall(x, d) == FQuot(x.neg, x.m, x.e, d)

RECURSIVE BTimesPow10(_, _)
BTimesPow10(a, k) == IF k = 0 THEN a ELSE BTimesPow10(BMulSmall(a, 10), k - 1)

Abs(n) == IF n < 0 THEN 0 - n ELSE n

\* The float a JSON number sig * 10^exp10 is read as: the nearest float.
FromJson(sig, exp10) ==
    IF exp10 >= 0
    THEN FRound(sig < 0, BTimesPow10(BFromInt(Abs(sig)), exp10), 0, FALSE)
    ELSE FQuot(sig < 0, BFromInt(Abs(sig)), 0, 10 ^ (0 - exp10))

\* the integer nearest to 100 * |x|, ties to even: the digits round(x, 2) keeps
Hundredths(x) ==
    LET n == BMulSmall(x.m, 100)
    IN  IF x.e >= 0 THEN BShl(n, x.e)
        ELSE LET sh    == BShr(n, (0 - x.e) - 1)
                 guard == BOdd(sh.q)
                 q     == BShr(sh.q, 1).q
                 up    == guard /\ (sh.sticky \/ BOdd(q))
             IN  IF up THEN BAdd(q, <<1>>) ELSE q

\* round(x, 2): the float nearest to the correctly rounded two-decimal value
Round2(x) == FQuot(x.neg, Hundredths(x), 0, 100)

\* x >= 0
FGeZero(x) == ~x.neg

(***************************************************************************)
(* Strings that the code takes apart are sequences of characters.          *)
(***************************************************************************)
IsSpace(c) == c = " "

LowerChar(c) ==
    CASE c = "N" -> "n"
      [] c = "S" -> "s"
      [] OTHER   -> c

Lower(s) == [i \in 1..Len(s) |-> LowerChar(s[i])]

RECURSIVE LStrip(_)
LStrip(s) ==
    IF s # << >> /\ IsSpace(s[1]) THEN LStrip(Tail(s)) ELSE s

RECURSIVE RStrip(_)
RStrip(s) ==
    IF s # << >> /\ IsSpace(s[Len(s)]) THEN RStrip(SubSeq(s, 1, Len(s) - 1)) ELSE s

Strip(s) == RStrip(LStrip(s))

\* d.get(key, default) on a dict, a function from its keys
Get(d, key, default) == IF key \in DOMAIN d THEN d[key] ELSE default

\* a slip: the name is trimmed and not lowercased
NormNameCased(d) == Strip(Get(d, "name", << >>))

\* (d.get("name") or "").strip().lower(); a missing name reads as None
NormName(d) == Lower(Strip(Get(d, "name", << >>)))

\* a slip: no record is skipped
SkippedNever(name) == FALSE

\* "if not name: continue" (lines 112-113, 128-129)
Skipped(name) == name = << >>

\* A numeric field is [t |-> "float", v |-> f], or [t |-> "None", v |-> FZero]
\* for a null left in the collection.
Flt(f) == [t |-> "float", v |-> f]

NoneVal == [t |-> "None", v |-> FZero]

\* float(d.get("amount", 0)): the value, or the TypeError float(None) raises
FloatAmount(d) ==
    LET a == Get(d, "amount", Flt(FZero))
    IN  IF a.t = "float" THEN [ok |-> TRUE, v |-> a.v, exc |-> ""]
        ELSE [ok |-> FALSE, v |-> FZero, exc |-> "TypeError"]

\* a slip: each monthly cost is rounded before it is summed
MonthlyCostRounded(amount, cycle) ==
    Round2(IF cycle = "annual" THEN FDivSmall(amount, 12)
           ELSE IF cycle = "weekly" THEN FDivSmall(FMulSmall(amount, 52), 12)
           ELSE amount)

\* lines 115-120: the monthly cost of an amount billed per cycle
MonthlyCost(amount, cycle) ==
    IF cycle = "annual" THEN FDivSmall(amount, 12)
    ELSE IF cycle = "weekly" THEN FDivSmall(FMulSmall(amount, 52), 12)
    ELSE amount

\* by_service.setdefault(name, 0); by_service[name] += monthly
AddTo(by_service, name, monthly) ==
    IF name \in DOMAIN by_service
    THEN [by_service EXCEPT ![name] = FAdd(@, monthly)]
    ELSE by_service @@ (name :> FAdd(FZero, monthly))

EmptyDict == [k \in {} |-> FZero]

\* lines 105-123: the first loop from record i on, over the locals st; an
\* exception leaves the loop with the locals as they were
RECURSIVE CostLoop(_, _, _)
CostLoop(docs, i, st) ==
    IF i > Len(docs) \/ st.exc # "" THEN st
    ELSE LET d      == docs[i]
             amount == FloatAmount(d)
             cycle  == Get(d, "billing_cycle", "monthly")
             name   == NormName(d)
         IN  IF ~amount.ok THEN [st EXCEPT !.exc = amount.exc]
             ELSE IF Skipped(name) THEN CostLoop(docs, i + 1, st)
             ELSE LET monthly == MonthlyCost(amount.v, cycle)
                  IN  CostLoop(docs, i + 1,
                          [total_monthly |-> FAdd(st.total_monthly, monthly),
                           by_service    |-> AddTo(st.by_service, name, monthly),
                           exc           |-> ""])

\* lines 125-130: name_counts, a dict kept in insertion order
RECURSIVE CountLoop(_, _, _)
CountLoop(docs, i, name_counts) ==
    IF i > Len(docs) THEN name_counts
    ELSE LET n == NormName(docs[i])
         IN  IF Skipped(n) THEN CountLoop(docs, i + 1, name_counts)
             ELSE IF n \in DOMAIN name_counts.c
             THEN CountLoop(docs, i + 1,
                      [name_counts EXCEPT !.c[n] = @ + 1])
             ELSE CountLoop(docs, i + 1,
                      [keys |-> Append(name_counts.keys, n),
                       c    |-> name_counts.c @@ (n :> 1)])

\* line 131: the names counted more than once, in insertion order
Duplicates(name_counts) ==
    SelectSeq(name_counts.keys, LAMBDA n : name_counts.c[n] > 1)

(***************************************************************************)
(* The bounds of the model.                                                *)
(***************************************************************************)
\* the most documents the collection holds
MaxDocs == 3

(***************************************************************************)
(* State.                                                                  *)
(*   store      the "subscription" collection, in insertion order          *)
(*   nextId     the ObjectId the store assigns next                        *)
(*   request    the last request handled: its endpoint, its JSON body,     *)
(*              and whether the store answered                             *)
(*   response   the response to it                                         *)
(*   created    the bodies of the creates that succeeded, with the ids     *)
(*              they returned                                              *)
(*   seen       the body of the first successful summary since the last    *)
(*              successful create, if there was one, and whether another   *)
(*              successful summary followed it                             *)
(***************************************************************************)
VARIABLES store, nextId, request, response, created, seen

vars == <<store, nextId, request, response, created, seen>>

\* str(ObjectId): the hexadecimal digits of the id
HexDigit(n) ==
    <<"0", "1", "2", "3", "4", "5", "6", "7", "8", "9", "a", "b", "c", "d", "e", "f">>[n + 1]

RECURSIVE ObjectIdStr(_)
ObjectIdStr(n) ==
    IF n < 16 THEN <<HexDigit(n)>>
    ELSE ObjectIdStr(n \div 16) \o <<HexDigit(n % 16)>>

\* a slip: Field(...) without ge=0, min_length and max_length
SubscriptionInUnchecked(payload) ==
    LET errors ==
            (IF "name" \notin DOMAIN payload THEN {"name"} ELSE {})
            \cup (IF "amount" \notin DOMAIN payload THEN {"amount"} ELSE {})
    IN  IF errors # {} THEN [ok |-> FALSE, errors |-> errors, value |-> << >>]
        ELSE [ok     |-> TRUE,
              errors |-> {},
              value  |->
                [name          |-> payload.name,
                 amount        |-> [t |-> "float",
                                    v |-> FromJson(payload.amount.sig, payload.amount.exp10)],
                 currency      |-> Get(payload, "currency", <<"U", "S", "D">>),
                 billing_cycle |-> Get(payload, "billing_cycle", "monthly"),
                 active        |-> Get(payload, "active", TRUE)]]

\* The request model SubscriptionIn (lines 21-30): the field errors of a JSON
\* body, and the model_dump() of a valid one.  next_charge_date, payment_method,
\* tags and notes are left out of every body here, and dump as None.
SubscriptionIn(payload) ==
    LET errors ==
            (IF "name" \notin DOMAIN payload THEN {"name"} ELSE {})
            \cup (IF "amount" \notin DOMAIN payload THEN {"amount"}
                  ELSE IF payload.amount.sig < 0 THEN {"amount"} ELSE {})
            \cup (IF "currency" \in DOMAIN payload
                     /\ (Len(payload.currency) < 3 \/ Len(payload.currency) > 3)
                  THEN {"currency"} ELSE {})
    IN  IF errors # {} THEN [ok |-> FALSE, errors |-> errors, value |-> << >>]
        ELSE [ok     |-> TRUE,
              errors |-> {},
              value  |->
                [name          |-> payload.name,
                 amount        |-> Flt(FromJson(payload.amount.sig, payload.amount.exp10)),
                 currency      |-> Get(payload, "currency", <<"U", "S", "D">>),
                 billing_cycle |-> Get(payload, "billing_cycle", "monthly"),
                 active        |-> Get(payload, "active", TRUE)]]

\* create_document("subscription", data): the store adds the document under a
\* fresh _id and returns str(_id), or raises when it cannot be reached
CreateDocument(up, data) ==
    IF ~up THEN [ok |-> FALSE, exc |-> "StorageError", id |-> << >>, docs |-> store]
    ELSE [ok   |-> TRUE,
          exc  |-> "",
          id   |-> ObjectIdStr(nextId),
          docs |-> Append(store, data @@ ("_id" :> nextId))]

\* get_documents("subscription", {}, limit=None): every document, as a fresh
\* list, or raises when the store cannot be reached
GetDocuments(up) ==
    IF ~up THEN [ok |-> FALSE, exc |-> "StorageError", docs |-> << >>]
    ELSE [ok |-> TRUE, exc |-> "", docs |-> store]

\* raise HTTPException(status_code=500, detail=str(e))
Http500(exc) == [status |-> 500, body |-> [detail |-> exc]]

Ok200(body) == [status |-> 200, body |-> body]

\* FastAPI's answer to a body SubscriptionIn rejects: 422 with the field errors
Http422(errors) == [status |-> 422, body |-> [field_errors |-> errors]]

\* a slip: a name already stored is answered as a conflict
CreateResponseUnique(res) ==
    IF ~res.ok THEN [status |-> 500, body |-> [detail |-> res.exc]]
    ELSE IF \E i \in 1..(Len(res.docs) - 1) :
                NormName(res.docs[i]) = NormName(res.docs[Len(res.docs)])
    THEN [status |-> 409, body |-> [detail |-> "duplicate"]]
    ELSE [status |-> 200, body |-> [id |-> res.id, status |-> "created"]]

\* lines 75-79
CreateResponse(res) ==
    IF res.ok THEN Ok200([id |-> res.id, status |-> "created"])
    ELSE Http500(res.exc)

\* lines 89-94: _id leaves the document and comes back as the string id
ListItem(d) ==
    IF "_id" \in DOMAIN d
    THEN [k \in (DOMAIN d \ {"_id"}) \cup {"id"} |->
            IF k = "id" THEN ObjectIdStr(d["_id"]) ELSE d[k]]
    ELSE d

\* a slip: only the active subscriptions are listed
ListResponseActiveOnly(fetch) ==
    IF fetch.ok
    THEN LET docs == SelectSeq(fetch.docs, LAMBDA d : Get(d, "active", TRUE))
         IN  [status |-> 200,
              body   |-> [items |-> [i \in 1..Len(docs) |-> ListItem(docs[i])]]]
    ELSE [status |-> 500, body |-> [detail |-> fetch.exc]]

\* lines 85-97
ListResponse(fetch) ==
    IF fetch.ok
    THEN Ok200([items |-> [i \in 1..Len(fetch.docs) |-> ListItem(fetch.docs[i])]])
    ELSE Http500(fetch.exc)

\* a slip: total_monthly lives outside the handler and is not reset
CarriedLocals ==
    [total_monthly |-> IF seen.set THEN seen.body.total_monthly ELSE FZero,
     by_service    |-> EmptyDict,
     exc           |-> ""]

\* lines 105-106: the locals before the first loop
NoLocals == [total_monthly |-> FZero, by_service |-> EmptyDict, exc |-> ""]

NoCounts == [keys |-> << >>, c |-> [k \in {} |-> 0]]

\* lines 132-136
SummaryBody(total_monthly, by_service, duplicates) ==
    [total_monthly |-> Round2(total_monthly),
     services      |-> [k \in DOMAIN by_service |-> Round2(by_service[k])],
     duplicates    |-> duplicates]

\* a slip: the except clause answers with what was summed so far
SummaryOutcomePartial(docs, st) ==
    [status |-> 200,
     body   |-> SummaryBody(st.total_monthly, st.by_service,
                            IF st.exc # "" THEN << >>
                            ELSE Duplicates(CountLoop(docs, 1, NoCounts)))]

\* lines 103-138: what the handler answers once the first loop has ended with
\* the locals st
SummaryOutcome(docs, st) ==
    IF st.exc # "" THEN Http500(st.exc)
    ELSE Ok200(SummaryBody(st.total_monthly, st.by_service,
                           Duplicates(CountLoop(docs, 1, NoCounts))))

SummaryResponse(fetch) ==
    IF fetch.ok THEN SummaryOutcome(fetch.docs, CostLoop(fetch.docs, 1, NoLocals))
    ELSE Http500(fetch.exc)

(***************************************************************************)
(* The JSON bodies posted to /api/subscriptions in the model.              *)
(***************************************************************************)
Json(sig, exp10) == [sig |-> sig, exp10 |-> exp10]

ValidPayloads ==
    { [name |-> <<"N">>, amount |-> Json(1599, -2), billing_cycle |-> "annual"],
      [name |-> <<" ", "n", " ">>, amount |-> Json(8, 0), billing_cycle |-> "weekly",
       currency |-> <<"E", "U", "R">>],
      [name |-> <<"S">>, amount |-> Json(1, 16), active |-> FALSE],
      [name |-> <<" ">>, amount |-> Json(5, -2), billing_cycle |-> "monthly"],
      [name |-> <<"n">>, amount |-> Json(1, 0), billing_cycle |-> "daily"] }

InvalidPayloads ==
    { [name |-> <<"N">>, amount |-> Json(-1, 0)],
      [name |-> <<"N">>, amount |-> Json(8, 0), currency |-> <<"U", "S">>],
      [name |-> <<"N">>, amount |-> Json(8, 0), currency |-> <<"E", "U", "R", "O">>] }

Payloads == ValidPayloads \cup InvalidPayloads

\* Documents found in the collection that the API did not write: written to
\* the database directly, they may lack a field or hold a null.
Unnamed == [amount |-> Flt(FromJson(8, 0)), billing_cycle |-> "weekly"]

Uncycled == [name |-> <<"n">>, amount |-> Flt(FromJson(1599, -2))]

Unpriced == [name |-> <<"S">>]

NullAmount == [name |-> <<"S">>, amount |-> NoneVal]

NullUnnamed == [name |-> << >>, amount |-> NoneVal]

\* the collections the service may find when it starts
LegacyCollections ==
    { << >>, <<Unnamed>>, <<Uncycled>>, <<Unpriced>>, <<NullUnnamed>>,
      <<Uncycled, NullAmount>> }

WithIds(docs) == [i \in 1..Len(docs) |-> docs[i] @@ ("_id" :> i)]

NoRequest == [op |-> "none", up |-> TRUE, payload |-> << >>]

NoResponse == [status |-> 0, body |-> << >>]

NoSummary == [set |-> FALSE, again |-> FALSE, body |-> << >>]

InitWith(docs) ==
    /\ store = WithIds(docs)
    /\ nextId = Len(docs) + 1
    /\ request = NoRequest
    /\ response = NoResponse
    /\ created = << >>
    /\ seen = NoSummary

\* the service started on an empty collection
Init == InitWith(<< >>)

\* the service started on a collection that holds documents already
InitLegacy == \E docs \in LegacyCollections : InitWith(docs)

\* what SubscriptionIn makes of each body, worked out once
Validated == [payload \in Payloads |-> SubscriptionIn(payload)]

\* POST /api/subscriptions (lines 72-79).  A rejected body never reaches the
\* store, so whether the store answers is left unchosen (up) for it.
CreateSubscription(payload, up) ==
    LET v == Validated[payload]
    IN  /\ request' = [op |-> "create", up |-> up, payload |-> payload]
        /\ ~v.ok => up
        /\ IF ~v.ok
           THEN /\ response' = Http422(v.errors)
                /\ UNCHANGED <<store, nextId, created, seen>>
           ELSE LET res == CreateDocument(up, v.value)
                IN  /\ res.ok => Len(store) < MaxDocs
                    /\ response' = CreateResponse(res)
                    /\ store' = res.docs
                    /\ nextId' = IF res.ok THEN nextId + 1 ELSE nextId
                    /\ created' = IF res.ok
                                  THEN Append(created, [id |-> res.id, payload |-> payload])
                                  ELSE created
                    /\ seen' = IF res.ok THEN NoSummary ELSE seen

\* GET /api/subscriptions (lines 82-97)
ListSubscriptions(up) ==
    /\ request' = [op |-> "list", up |-> up, payload |-> << >>]
    /\ response' = ListResponse(GetDocuments(up))
    /\ UNCHANGED <<store, nextId, created, seen>>

\* GET /api/insights/summary (lines 100-138)
MonthlySummary(up) ==
    /\ request' = [op |-> "summary", up |-> up, payload |-> << >>]
    /\ response' = SummaryResponse(GetDocuments(up))
    /\ seen' = IF response'.status # 200 THEN seen
               ELSE IF seen.set THEN [seen EXCEPT !.again = TRUE]
               ELSE [set |-> TRUE, again |-> FALSE, body |-> response'.body]
    /\ UNCHANGED <<store, nextId, created>>

Next ==
    \/ \E payload \in Payloads, up \in BOOLEAN : CreateSubscription(payload, up)
    \/ \E up \in BOOLEAN : ListSubscriptions(up)
    \/ \E up \in BOOLEAN : MonthlySummary(up)

Spec == Init /\ [][Next]_vars

SpecLegacy == InitLegacy /\ [][Next]_vars

(***************************************************************************)
(* What the claims are stated with.  These definitions follow the wording  *)
(* of the specification, not the handlers' loops.                          *)
(***************************************************************************)
Range(q) == {q[i] : i \in 1..Len(q)}

SummaryReturned == request.op = "summary" /\ response.status = 200

\* the name as stored, the empty string when there is none
RawName(d) == IF "name" \in DOMAIN d THEN d.name ELSE << >>

NonSpaceAt(s) == {i \in 1..Len(s) : s[i] # " "}

Min(S) == CHOOSE x \in S : \A y \in S : x <= y

Max(S) == CHOOSE x \in S : \A y \in S : x >= y

\* trimmed: from the first to the last character that is not a space
Trimmed(s) ==
    IF NonSpaceAt(s) = {} THEN << >>
    ELSE SubSeq(s, Min(NonSpaceAt(s)), Max(NonSpaceAt(s)))

Lowercase == [c \in {"N", "S", "n", "s", " "} |->
                 IF c = "N" THEN "n" ELSE IF c = "S" THEN "s" ELSE c]

\* the normalized name: trimmed and lowercased
Normalized(s) == [i \in 1..Len(Trimmed(s)) |-> Lowercase[Trimmed(s)[i]]]

ServiceOf(d) == Normalized(RawName(d))

\* the documents named n, in stored order
Named(docs, n) == SelectSeq(docs, LAMBDA d : ServiceOf(d) = n)

\* the documents with a non-empty normalized name, in stored order
AllNamed(docs) == SelectSeq(docs, LAMBDA d : ServiceOf(d) # << >>)

Services(docs) == {ServiceOf(docs[i]) : i \in 1..Len(docs)} \ {<< >>}

\* the amount as a float; a missing amount counts as 0
AmountOf(d) == IF "amount" \in DOMAIN d THEN d.amount.v ELSE FZero

CycleOf(d) == IF "billing_cycle" \in DOMAIN d THEN d.billing_cycle ELSE "monthly"

\* amount/12 for annual, amount*52/12 for weekly, amount otherwise
ExpectedMonthly(d) ==
    CASE CycleOf(d) = "annual" -> FDivSmall(AmountOf(d), 12)
      [] CycleOf(d) = "weekly" -> FDivSmall(FMulSmall(AmountOf(d), 52), 12)
      [] OTHER                 -> AmountOf(d)

\* the unrounded float sum of the monthly costs of docs, in stored order
RECURSIVE UnroundedSum(_)
UnroundedSum(docs) ==
    IF docs = << >> THEN FZero
    ELSE FAdd(UnroundedSum(SubSeq(docs, 1, Len(docs) - 1)),
              ExpectedMonthly(docs[Len(docs)]))

\* no document of docs makes float(amount) raise
AllNumeric(docs) ==
    \A i \in 1..Len(docs) :
        "amount" \in DOMAIN docs[i] => docs[i].amount.t = "float"

(***************************************************************************)
(* C1.  Every summary returned gives, for each normalized name n, the one  *)
(* rounding to 2 decimals of the unrounded sum of the monthly costs of the *)
(* records named n, and as total_monthly the one rounding of the unrounded *)
(* sum over all records with a non-empty normalized name; the monthly cost *)
(* is amount/12 (annual), amount*52/12 (weekly), amount (otherwise).       *)
(***************************************************************************)
C1_SingleRounding ==
    SummaryReturned =>
        /\ DOMAIN response.body.services = Services(store)
        /\ \A n \in Services(store) :
              response.body.services[n] = Round2(UnroundedSum(Named(store, n)))
        /\ response.body.total_monthly = Round2(UnroundedSum(AllNamed(store)))

\* a summary of a service billed both weekly and annually, whose sum is not
\* itself a two-decimal value, beside a record of an unrecognized cycle
C1_Witness ==
    /\ SummaryReturned
    /\ \E n \in Services(store) :
          /\ {"annual", "weekly"} \subseteq Range([i \in 1..Len(Named(store, n)) |->
                                                     CycleOf(Named(store, n)[i])])
          /\ response.body.services[n] # UnroundedSum(Named(store, n))
    /\ \E i \in 1..Len(store) :
          /\ CycleOf(store[i]) \notin {"annual", "weekly", "monthly"}
          /\ ServiceOf(store[i]) # << >>

(***************************************************************************)
(* C2.  A non-empty normalized name is in the duplicates of a summary      *)
(* exactly when at least two records carry it, whatever the case and the   *)
(* surrounding spaces of the stored names; the list repeats no name.       *)
(***************************************************************************)
C2_Duplicates ==
    SummaryReturned =>
        LET dups == response.body.duplicates
        IN  /\ \A n \in Services(store) \cup Range(dups) :
                  n \in Range(dups) <=>
                      /\ n # << >>
                      /\ Cardinality({i \in 1..Len(store) : ServiceOf(store[i]) = n}) >= 2
            /\ \A i, j \in 1..Len(dups) : i # j => dups[i] # dups[j]

\* a name stored in two spellings is reported, beside a name stored once
C2_Witness ==
    /\ SummaryReturned
    /\ \E i, j \in 1..Len(store) :
          /\ RawName(store[i]) # RawName(store[j])
          /\ ServiceOf(store[i]) = ServiceOf(store[j])
          /\ ServiceOf(store[i]) \in Range(response.body.duplicates)
    /\ Services(store) \ Range(response.body.duplicates) # {}

(***************************************************************************)
(* C3.  Records whose name is missing, empty or only spaces contribute     *)
(* nothing: the answer to a summary request over records whose nameless    *)
(* ones carry a number as amount is the answer over the record set without *)
(* the nameless ones, and the empty name is neither a services key nor a   *)
(* duplicate, even when several records share it.                          *)
(***************************************************************************)
Nameless(docs) == SelectSeq(docs, LAMBDA d : ServiceOf(d) = << >>)

LeastExp(body) ==
    Min({0, body.total_monthly.e} \cup {body.services[k].e : k \in DOMAIN body.services})

\* |x| / 2^e, for e no greater than the exponent of x
Scaled(x, e) == BShl(x.m, x.e - e)

RECURSIVE SumScaled(_, _, _)
SumScaled(services, keys, e) ==
    IF keys = {} THEN << >>
    ELSE LET k == CHOOSE k \in keys : TRUE
         IN  BAdd(Scaled(services[k], e), SumScaled(services, keys \ {k}, e))

BDist(a, b) == IF BLeq(a, b) THEN BSub(b, a) ELSE BSub(a, b)

\* 100 * |total - sum of services| <= number of services
WithinTolerance(body) ==
    LET e    == LeastExp(body)
        keys == DOMAIN body.services
        dist == BDist(Scaled(body.total_monthly, e), SumScaled(body.services, keys, e))
    IN  BLeq(BMulSmall(dist, 100), BShl(BFromInt(Cardinality(keys)), 0 - e))

C4_TotalNearServices ==
    (SummaryReturned /\ \A i \in 1..Len(store) : FGeZero(AmountOf(store[i])))
        => WithinTolerance(response.body)

(***************************************************************************)
(* C5.  A create whose billing_cycle is none of monthly, annual, weekly is *)
(* rejected with a validation error, so every stored record has one of     *)
(* the three.                                                              *)
(***************************************************************************)
BillingCycles == {"monthly", "annual", "weekly"}

C5_CycleValidated ==
    /\ (request.op = "create" /\ "billing_cycle" \in DOMAIN request.payload
            /\ request.payload.billing_cycle \notin BillingCycles)
          => response.status = 422
    /\ \A i \in 1..Len(store) : CycleOf(store[i]) \in BillingCycles

(***************************************************************************)
(* C6.  A create with a negative amount, or a currency not 3 characters    *)
(* long, is answered 422 and persists nothing: the store holds the         *)
(* accepted creates only, each with amount >= 0 and a 3-character          *)
(* currency.                                                               *)
(***************************************************************************)
BadAmount(payload) == "amount" \in DOMAIN payload /\ payload.amount.sig < 0

BadCurrency(payload) == "currency" \in DOMAIN payload /\ Len(payload.currency) # 3

C6_AmountCurrencyValidated ==
    /\ (request.op = "create" /\ (BadAmount(request.payload) \/ BadCurrency(request.payload)))
          => response.status = 422
    /\ Len(store) = Len(created)
    /\ \A i \in 1..Len(store) :
          /\ ObjectIdStr(store[i]["_id"]) = created[i].id
          /\ ~BadAmount(created[i].payload) /\ ~BadCurrency(created[i].payload)
          /\ FGeZero(store[i].amount.v)
          /\ Len(store[i].currency) = 3

\* a negative amount has just been refused while records are stored
C6_Witness ==
    /\ request.op = "create"
    /\ BadAmount(request.payload)
    /\ response.status = 422
    /\ store # << >>

(***************************************************************************)
(* C7.  From an empty store, a listing holds one item per successful       *)
(* create, with the id that create returned (ids pairwise distinct) and    *)
(* the name, amount, currency and billing_cycle submitted; inactive        *)
(* records are listed too.                                                 *)
(***************************************************************************)
Submitted(payload, item) ==
    /\ item.name = payload.name
    /\ item.amount.t = "float"
    /\ item.amount.v = FromJson(payload.amount.sig, payload.amount.exp10)
    /\ item.currency = (IF "currency" \in DOMAIN payload THEN payload.currency
                        ELSE <<"U", "S", "D">>)
    /\ item.billing_cycle = (IF "billing_cycle" \in DOMAIN payload
                             THEN payload.billing_cycle ELSE "monthly")
    /\ item.active = (IF "active" \in DOMAIN payload THEN payload.active ELSE TRUE)

C7_ListRoundTrip ==
    /\ \A i, j \in 1..Len(created) : i # j => created[i].id # created[j].id
    /\ (request.op = "list" /\ response.status = 200) =>
          LET items == response.body.items
          IN  /\ Len(items) = Len(created)
              /\ \A i \in 1..Len(created) :
                    /\ "_id" \notin DOMAIN items[i]
                    /\ items[i].id = created[i].id
                    /\ Submitted(created[i].payload, items[i])

\* a listing of several records, one of them inactive
C7_Witness ==
    /\ request.op = "list" /\ response.status = 200
    /\ Len(response.body.items) >= 2
    /\ \E i \in 1..Len(response.body.items) : ~response.body.items[i].active

(***************************************************************************)
(* C8.  A valid create succeeds with status created whatever names are     *)
(* stored: the record is added, the earlier ones stay, and a summary lists *)
(* every name carried by two records under duplicates, with a services     *)
(* value summing the monthly costs of all of them.                         *)
(***************************************************************************)
WellFormed(payload) ==
    /\ "name" \in DOMAIN payload
    /\ "amount" \in DOMAIN payload
    /\ ~BadAmount(payload)
    /\ ~BadCurrency(payload)

C8_DuplicateNamesAccepted ==
    /\ (request.op = "create" /\ request.up /\ WellFormed(request.payload)) =>
          /\ response.status = 200
          /\ response.body.status = "created"
          /\ created # << >>
          /\ created[Len(created)] = [id |-> response.body.id, payload |-> request.payload]
    /\ Len(store) = Len(created)
    /\ \A i \in 1..Len(store) :
          /\ ObjectIdStr(store[i]["_id"]) = created[i].id
          /\ store[i].name = created[i].payload.name
    /\ SummaryReturned =>
          \A n \in Services(store) :
              Len(Named(store, n)) >= 2 =>
                  /\ n \in Range(response.body.duplicates)
                  /\ response.body.services[n] = Round2(UnroundedSum(Named(store, n)))

\* two creates under one normalized name, spelled differently, both
\* succeeded, and the summary reports the name
C8_Witness ==
    /\ SummaryReturned
    /\ \E i, j \in 1..Len(created) :
          /\ i < j
          /\ created[i].payload.name # created[j].payload.name
          /\ Normalized(created[i].payload.name) = Normalized(created[j].payload.name)
          /\ Normalized(created[i].payload.name) \in Range(response.body.duplicates)

(***************************************************************************)
(* C9.  A summary request is answered either with the complete summary of  *)
(* the records fetched, or with 500 and the exception message alone; it is *)
(* 500 whenever the fetch or a record raises.                              *)
(***************************************************************************)
C9_AllOrNothing ==
    request.op = "summary" =>
        \/ /\ response.status = 200
           /\ request.up /\ AllNumeric(store)
           /\ DOMAIN response.body = {"total_monthly", "services", "duplicates"}
           /\ response.body.total_monthly = Round2(UnroundedSum(AllNamed(store)))
           /\ DOMAIN response.body.services = Services(store)
           /\ Range(response.body.duplicates) =
                  {n \in Services(store) : Len(Named(store, n)) >= 2}
        \/ /\ response.status = 500
           /\ ~request.up \/ ~AllNumeric(store)
           /\ DOMAIN response.body = {"detail"}
           /\ response.body.detail = (IF request.up THEN "TypeError" ELSE "StorageError")

\* a record raised after a named record of a non-zero amount had been summed
C9_Witness ==
    /\ request.op = "summary" /\ request.up
    /\ response.status = 500
    /\ \E i, j \in 1..Len(store) :
          /\ i < j
          /\ ServiceOf(store[i]) # << >>
          /\ "amount" \in DOMAIN store[i] /\ store[i].amount.t = "float"
          /\ store[i].amount.v # FZero
          /\ "amount" \in DOMAIN store[j] /\ store[j].amount.t # "float"

(***************************************************************************)
(* C10.  Listing and summarizing leave the store as it is; every summary   *)
(* returned equals the first one returned since the last create, and is    *)
(* computed from the records stored now.                                   *)
(***************************************************************************)
C10_ReadOnlyStateless ==
    [][ /\ request'.op \in {"list", "summary"} => store' = store
        /\ (request'.op = "summary" /\ response'.status = 200) =>
              /\ seen'.set
              /\ response'.body = seen'.body
              /\ DOMAIN response'.body.services = Services(store')
              /\ response'.body.total_monthly = Round2(UnroundedSum(AllNamed(store')))
      ]_vars

\* a second summary of a non-empty record set, with no create in between
C10_Witness ==
    /\ SummaryReturned
    /\ seen.again
    /\ Services(store) # {}

====
